---- MODULE Spec2Model ----
(***************************************************************************)
(* Model of the steady-state heat conduction solver driver                 *)
(* (src/src/heat_conduction/solver/driver/main.py) and of the input        *)
(* document it reads (api_models.py).                                      *)
(*                                                                         *)
(* Numbers.  The driver computes in floating point.  The model computes    *)
(* with exact rationals: coordinates, spacings, conductivities and source  *)
(* rates are integers, temperatures are integers in units of 1/Scale, and  *)
(* Scale is chosen so that every division by 6 and by k of the first       *)
(* MaxIterBound sweeps is exact.  int(a/b) is truncation toward zero.      *)
(***************************************************************************)
EXTENDS Integers, Sequences, FiniteSets, TLC

VARIABLES doc, pc, fault, exitCode, nx, ny, nz, T, Q, src, warnings,
          it, sweeps, error, converged, summary, files, heat_flux, vtk,
          ui

vars == <<doc, pc, fault, exitCode, nx, ny, nz, T, Q, src, warnings,
          it, sweeps, error, converged, summary, files, heat_flux, vtk,
          ui>>

\* Largest max_iter of the documents explored.
MaxIterBound == 3

\* Bounds of the user-interface model: elements per group, geometries per
\* element.
MaxElements == 2
MaxGeometries == 2

\* Temperatures are stored as integers in units of 1/Scale: 2 is the least
\* common multiple of the conductivities |k| explored, 6 the stencil divisor.
Scale == 2 * (6 ^ MaxIterBound)

Abs(a) == IF a < 0 THEN -a ELSE a

\* Python's int(a / b) for b # 0: the quotient truncated toward zero.
TruncDiv(a, b) ==
    IF (a >= 0) = (b > 0) THEN Abs(a) \div Abs(b) ELSE -(Abs(a) \div Abs(b))

\* a / b where the quotient is an integer (see ExactArithmetic).
ExactDiv(a, b) == IF b < 0 THEN (-a) \div (-b) ELSE a \div b

DIRICHLET_FACES == <<"xmin", "xmax", "ymin", "ymax", "zmin", "zmax">>

Artifacts == {"summary.json", "Temperature.vtr", "HeatFlux.vtr"}

----------------------------------------------------------------------------
\* Input documents.

MaterialSettings(xmax, ymax, zmax, k) ==
    [xmin |-> 1, xmax |-> xmax, ymin |-> 1, ymax |-> ymax,
     zmin |-> 1, zmax |-> zmax, thermal_conductivity |-> k]

GridSettings(dx, dy, dz) == [dx |-> dx, dy |-> dy, dz |-> dz]

SourceSettings(x, y, z, q) ==
    [x |-> x, y |-> y, z |-> z, volumetric_heat_source |-> q]

BoundarySettings(face, temperature) ==
    [face |-> face, temperature |-> temperature]

\* (material extent, spacing) pairs: <<xmax, ymax, zmax, dx, dy, dz>>.
Geometries ==
    { <<3, 3, 3, 1, 1, 1>>,      \* 3 x 3 x 3
      <<5, 3, 3, 1, 1, 1>>,      \* 5 x 3 x 3
      <<5, 3, 3, 2, 1, 1>>,      \* 3 x 3 x 3, dx = 2
      <<3, 3, 3, 2, 1, 1>>,      \* nx = 2
      <<2, 3, 3, 2, 1, 1>>,      \* nx = 1: thinner than one spacing
      <<0, 3, 3, 1, 1, 1>>,      \* nx = 0
      <<0, 3, 3, 2, 1, 1>>,      \* xmax < xmin, int(-1/2) + 1 = 1
      <<3, 3, 3, -1, 1, 1>>,     \* dx < 0, nx = -1
      <<3, 3, 3, 0, 1, 1>>,      \* dx = 0
      <<3, 2, 3, 1, 2, 1>>,      \* ny = 1
      <<3, 3, 3, 1, 0, 1>>,      \* dy = 0
      <<3, 3, 0, 1, 1, 1>>,      \* nz = 0
      <<3, 3, 3, 1, 1, 2>> }     \* nz = 2

Conductivities == {-1, 1, 2}

SrcA == SourceSettings(2, 2, 2, 6)
SrcB == SourceSettings(2, 2, 2, 12)
SrcLow == SourceSettings(0, 2, 2, 6)
SrcHigh == SourceSettings(6, 2, 2, 6)

SourceLists ==
    { <<>>, <<SrcA>>, <<SrcA, SrcB>>, <<SrcLow>>, <<SrcHigh>>,
      <<SrcA, SrcLow>> }

Uniform(t) == [n \in 1..6 |-> BoundarySettings(DIRICHLET_FACES[n], t)]

BoundaryLists ==
    { <<>>, Uniform(0), Uniform(100), Uniform(-100),
      <<BoundarySettings("xmin", 100), BoundarySettings("xmax", 0)>> }

\* Tolerances in units of 1/Scale: 0 (invalid), below every non-zero change
\* of the first MaxIterBound sweeps, and 60 K.
Tolerances == {0, 1, 60 * Scale}

MaxIters == 0..MaxIterBound

CompleteDocs ==
    { [present |-> TRUE,
       material_settings |-> <<MaterialSettings(g[1], g[2], g[3], k)>>,
       source_setings |-> s,
       boundary_settings |-> b,
       grid_settings |-> GridSettings(g[4], g[5], g[6]),
       solver_settings |-> [tolerance |-> tol, max_iter |-> m]] :
      g \in Geometries, k \in Conductivities, s \in SourceLists,
      b \in BoundaryLists, tol \in Tolerances, m \in MaxIters }

BaseDoc ==
    [present |-> TRUE,
     material_settings |-> <<MaterialSettings(3, 3, 3, 1)>>,
     source_setings |-> <<>>,
     boundary_settings |-> <<>>,
     grid_settings |-> GridSettings(1, 1, 1),
     solver_settings |-> [tolerance |-> 1, max_iter |-> MaxIterBound]]

\* A document lacking a required key, and one with no material.
Docs ==
    CompleteDocs \cup
    { [BaseDoc EXCEPT !.present = FALSE],
      [BaseDoc EXCEPT !.material_settings = <<>>] }

\* Documents every stage accepts, for the properties of the numerical method:
\* grids with an interior, positive conductivity and tolerance, max_iter >= 1.
StudyGeometries ==
    { <<3, 3, 3, 1, 1, 1>>,      \* 3 x 3 x 3
      <<5, 3, 3, 1, 1, 1>>,      \* 5 x 3 x 3
      <<5, 3, 3, 2, 1, 1>>,      \* 3 x 3 x 3, dx = 2
      <<3, 5, 3, 1, 2, 1>>,      \* 3 x 3 x 3, dy = 2
      <<5, 5, 3, 1, 2, 1>> }     \* 5 x 3 x 3, dy = 2

SrcMid == SourceSettings(3, 2, 2, 6)
SrcDeep == SourceSettings(3, 3, 2, 6)

StudyBoundaryLists ==
    { <<>>, Uniform(1), Uniform(100),
      <<BoundarySettings("xmin", 100), BoundarySettings("xmax", 0)>>,
      <<BoundarySettings("xmax", 100), BoundarySettings("zmax", 100)>>,
      <<BoundarySettings("zmax", 100), BoundarySettings("xmin", 50)>>,
      <<BoundarySettings("xmin", 50), BoundarySettings("xmin", 100)>> }

\* The linear-gradient scenario: 3 x 3 x 3 nodes on [0, 2]^3, unit spacing,
\* k = 1, no sources, xmin = 100, xmax = 0, the smallest tolerance and the
\* largest iteration cap of the model.
ScenarioDoc ==
    [present |-> TRUE,
     material_settings |->
        << [MaterialSettings(2, 2, 2, 1) EXCEPT !.xmin = 0, !.ymin = 0, !.zmin = 0] >>,
     source_setings |-> <<>>,
     boundary_settings |->
        <<BoundarySettings("xmin", 100), BoundarySettings("xmax", 0)>>,
     grid_settings |-> GridSettings(1, 1, 1),
     solver_settings |-> [tolerance |-> 1, max_iter |-> MaxIterBound]]

\* A source between two nodes: 3 x 3 x 3 nodes with dx = 3 on x in [1, 7],
\* one source at x = 3, two thirds of a spacing past node 0.
OffNodeDoc ==
    [present |-> TRUE,
     material_settings |-> <<MaterialSettings(7, 3, 3, 1)>>,
     source_setings |-> <<SrcMid>>,
     boundary_settings |-> <<>>,
     grid_settings |-> GridSettings(3, 1, 1),
     solver_settings |-> [tolerance |-> 1, max_iter |-> MaxIterBound]]

\* An extent that is no multiple of the spacing: x in [1, 6] with dx = 2.
StretchedDoc ==
    [present |-> TRUE,
     material_settings |-> <<MaterialSettings(6, 3, 3, 1)>>,
     source_setings |-> <<>>,
     boundary_settings |->
        <<BoundarySettings("xmin", 100), BoundarySettings("xmax", 0)>>,
     grid_settings |-> GridSettings(2, 1, 1),
     solver_settings |-> [tolerance |-> 1, max_iter |-> MaxIterBound]]

StudyDocs ==
    { [present |-> TRUE,
       material_settings |-> <<MaterialSettings(g[1], g[2], g[3], k)>>,
       source_setings |-> s,
       boundary_settings |-> b,
       grid_settings |-> GridSettings(g[4], g[5], g[6]),
       solver_settings |-> [tolerance |-> tol, max_iter |-> m]] :
      g \in StudyGeometries, k \in {1, 2}, s \in { <<>>, <<SrcA>>, <<SrcMid>>, <<SrcDeep>> },
      b \in StudyBoundaryLists, tol \in {1, Scale, 60 * Scale},
      m \in 1..MaxIterBound }
    \cup { ScenarioDoc, OffNodeDoc, StretchedDoc }

----------------------------------------------------------------------------
\* The names main.py binds after parsing.

material == doc.material_settings[1]
grid == doc.grid_settings
solver == doc.solver_settings
k == material.thermal_conductivity
tol == solver.tolerance
max_iter == solver.max_iter

Cells == (0..(nx - 1)) \X (0..(ny - 1)) \X (0..(nz - 1))

Interior ==
    { c \in Cells : /\ 1 <= c[1] /\ c[1] <= nx - 2
                    /\ 1 <= c[2] /\ c[2] <= ny - 2
                    /\ 1 <= c[3] /\ c[3] <= nz - 2 }

RECURSIVE SumOver(_, _)
SumOver(f, S) ==
    IF S = {} THEN 0
    ELSE LET c == CHOOSE x \in S : TRUE IN f[c] + SumOver(f, S \ {c})

MaxOf(S) == CHOOSE m \in S : \A x \in S : x <= m
MinOf(S) == CHOOSE m \in S : \A x \in S : m <= x

\* The simulation tree item after on_initialize_settings: three empty groups
\* (each element is the number of geometries assigned to it) and no call of
\* as_api_model so far.
NewSimulation ==
    [material_settings |-> <<>>, source_setings |-> <<>>,
     boundary_settings |-> <<>>, api_model |-> [outcome |-> "none"]]

\* The script before it reads the input file.
Start ==
    /\ ui = NewSimulation
    /\ pc = "parse"
    /\ fault = "none"
    /\ exitCode = -1
    /\ nx = 0 /\ ny = 0 /\ nz = 0
    /\ T = <<>>
    /\ Q = <<>>
    /\ src = 1
    /\ warnings = <<>>
    /\ it = 0
    /\ sweeps = 0
    /\ error = 0
    /\ converged = FALSE
    /\ summary = <<>>
    /\ files = {}
    /\ heat_flux = <<>>
    /\ vtk = [x_coords |-> <<>>, y_coords |-> <<>>, z_coords |-> <<>>,
              Temperature |-> <<>>, HeatFlux |-> <<>>]

Init == doc \in Docs /\ Start

StudyInit == doc \in StudyDocs /\ Start

\* An uncaught exception: the interpreter exits with a nonzero code.
Abort(kind) ==
    /\ pc' = "aborted"
    /\ fault' = kind
    /\ exitCode' = 1

\* Simulation.from_json and material = sim.material_settings[0].
Parse ==
    /\ pc = "parse"
    /\ IF ~doc.present THEN Abort("KeyError")
       ELSE IF Len(doc.material_settings) = 0 THEN Abort("IndexError")
       ELSE pc' = "grid" /\ UNCHANGED <<fault, exitCode>>
    /\ UNCHANGED <<ui, vtk, doc, nx, ny, nz, T, Q, src, warnings, it, sweeps, error,
                   converged, summary, files, heat_flux>>

Dim(lo, hi, h) == TruncDiv(hi - lo, h) + 1

\* Grid Setup: nx, ny, nz and the zero-filled arrays T and Q.
GridSetup ==
    /\ pc = "grid"
    /\ IF grid.dx = 0 \/ grid.dy = 0 \/ grid.dz = 0
       THEN /\ Abort("ZeroDivisionError")
            /\ UNCHANGED <<nx, ny, nz, T, Q>>
       ELSE LET x == Dim(material.xmin, material.xmax, grid.dx)
                y == Dim(material.ymin, material.ymax, grid.dy)
                z == Dim(material.zmin, material.zmax, grid.dz)
            IN  /\ nx' = x /\ ny' = y /\ nz' = z
                /\ IF x < 0 \/ y < 0 \/ z < 0
                   THEN /\ Abort("ValueError")
                        /\ UNCHANGED <<T, Q>>
                   ELSE /\ T' = [c \in (0..(x - 1)) \X (0..(y - 1)) \X (0..(z - 1)) |-> 0]
                        /\ Q' = [c \in (0..(x - 1)) \X (0..(y - 1)) \X (0..(z - 1)) |-> 0]
                        /\ pc' = "sources"
                        /\ UNCHANGED <<fault, exitCode>>
    /\ UNCHANGED <<ui, vtk, doc, src, warnings, it, sweeps, error, converged, summary,
                   files, heat_flux>>

\* The grid index main.py computes for a source.
SourceIndex(s) ==
    << TruncDiv(s.x - material.xmin, grid.dx),
       TruncDiv(s.y - material.ymin, grid.dy),
       TruncDiv(s.z - material.zmin, grid.dz) >>

\* InRange with the upper bounds off by one.
InRangeInclusive(c) ==
    /\ 0 <= c[1] /\ c[1] <= nx
    /\ 0 <= c[2] /\ c[2] <= ny
    /\ 0 <= c[3] /\ c[3] <= nz

InRange(c) ==
    /\ 0 <= c[1] /\ c[1] < nx
    /\ 0 <= c[2] /\ c[2] < ny
    /\ 0 <= c[3] /\ c[3] < nz

\* The store of an accepted source into Q.
Deposit(Qf, c, rate) == [Qf EXCEPT ![c] = rate]

\* InsertSource raising on an out-of-range source instead of warning.
InsertSourceRaising ==
    /\ pc = "sources"
    /\ src <= Len(doc.source_setings)
    /\ LET s == doc.source_setings[src]
           c == SourceIndex(s)
       IN  IF InRange(c)
           THEN /\ Q' = Deposit(Q, c, s.volumetric_heat_source)
                /\ src' = src + 1
                /\ UNCHANGED <<pc, fault, exitCode>>
           ELSE /\ Abort("ValueError")
                /\ UNCHANGED <<Q, src>>
    /\ UNCHANGED <<ui, vtk, doc, nx, ny, nz, T, warnings, it, sweeps, error,
                   converged, summary, files, heat_flux>>

\* Insert Heat Sources: one pass of the loop over sim.source_setings.
InsertSource ==
    /\ pc = "sources"
    /\ src <= Len(doc.source_setings)
    /\ LET s == doc.source_setings[src]
           c == SourceIndex(s)
       IN  IF InRange(c)
           THEN /\ Q' = Deposit(Q, c, s.volumetric_heat_source)
                /\ UNCHANGED warnings
           ELSE /\ warnings' = Append(warnings, s)
                /\ UNCHANGED Q
    /\ src' = src + 1
    /\ UNCHANGED <<ui, vtk, doc, pc, fault, exitCode, nx, ny, nz, T, it, sweeps, error,
                   converged, summary, files, heat_flux>>

\* bc_map[face]: the temperature of the last condition naming the face.
BcSet(face) ==
    \E n \in 1..Len(doc.boundary_settings) :
        doc.boundary_settings[n].face = face

\* The first condition supplied for a face kept instead of the last.
BcMapFirst(face) ==
    LET n == MinOf({ m \in 1..Len(doc.boundary_settings) :
                       doc.boundary_settings[m].face = face })
    IN  doc.boundary_settings[n].temperature

\* bc_map[bc.face] = bc.temperature, for each condition in the order supplied.
BcMap(face) ==
    LET n == MaxOf({ m \in 1..Len(doc.boundary_settings) :
                       doc.boundary_settings[m].face = face })
    IN  doc.boundary_settings[n].temperature

OnFace(c, face) ==
    CASE face = "xmin" -> c[1] = 0
      [] face = "xmax" -> c[1] = nx - 1
      [] face = "ymin" -> c[2] = 0
      [] face = "ymax" -> c[2] = ny - 1
      [] face = "zmin" -> c[3] = 0
      [] face = "zmax" -> c[3] = nz - 1

\* The axis length an integer index of the face plane is taken on.
FaceDim(face) ==
    CASE face \in {"xmin", "xmax"} -> nx
      [] face \in {"ymin", "ymax"} -> ny
      [] face \in {"zmin", "zmax"} -> nz

\* T[0, :, :] = bc_map["xmin"] and the five other plane assignments.
StampFace(Tf, face) ==
    IF BcSet(face)
    THEN [c \in DOMAIN Tf |-> IF OnFace(c, face) THEN BcMap(face) * Scale
                               ELSE Tf[c]]
    ELSE Tf

RECURSIVE StampFaces(_, _)
StampFaces(Tf, n) ==
    IF n = 0 THEN Tf ELSE StampFace(StampFaces(Tf, n - 1), DIRICHLET_FACES[n])

\* Apply Dirichlet Boundary Conditions, entered when the source loop ends.
ApplyBoundaries ==
    /\ pc = "sources"
    /\ src > Len(doc.source_setings)
    /\ IF \E n \in 1..6 : BcSet(DIRICHLET_FACES[n]) /\ FaceDim(DIRICHLET_FACES[n]) = 0
       THEN /\ Abort("IndexError")
            /\ UNCHANGED T
       ELSE /\ T' = StampFaces(T, 6)
            /\ pc' = IF max_iter > 0 THEN "solve" ELSE "summary"
            /\ UNCHANGED <<fault, exitCode>>
    /\ UNCHANGED <<ui, vtk, doc, nx, ny, nz, Q, src, warnings, it, sweeps, error,
                   converged, summary, files, heat_flux>>

\* Stencil reading the source of the i + 1 neighbour.
StencilNeighbourSource(T_old, c) ==
    ExactDiv( T_old[<<c[1] + 1, c[2], c[3]>>]
            + T_old[<<c[1] - 1, c[2], c[3]>>]
            + T_old[<<c[1], c[2] + 1, c[3]>>]
            + T_old[<<c[1], c[2] - 1, c[3]>>]
            + T_old[<<c[1], c[2], c[3] + 1>>]
            + T_old[<<c[1], c[2], c[3] - 1>>]
            + ExactDiv(grid.dx * grid.dx * Q[<<c[1] + 1, c[2], c[3]>>] * Scale, k), 6)

\* Stencil subtracting the source term.
StencilSourceSign(T_old, c) ==
    ExactDiv( T_old[<<c[1] + 1, c[2], c[3]>>]
            + T_old[<<c[1] - 1, c[2], c[3]>>]
            + T_old[<<c[1], c[2] + 1, c[3]>>]
            + T_old[<<c[1], c[2] - 1, c[3]>>]
            + T_old[<<c[1], c[2], c[3] + 1>>]
            + T_old[<<c[1], c[2], c[3] - 1>>]
            - ExactDiv(grid.dx * grid.dx * Q[c] * Scale, k), 6)

\* Stencil dividing by 5.
StencilOverFive(T_old, c) ==
    ExactDiv( T_old[<<c[1] + 1, c[2], c[3]>>]
            + T_old[<<c[1] - 1, c[2], c[3]>>]
            + T_old[<<c[1], c[2] + 1, c[3]>>]
            + T_old[<<c[1], c[2] - 1, c[3]>>]
            + T_old[<<c[1], c[2], c[3] + 1>>]
            + T_old[<<c[1], c[2], c[3] - 1>>]
            + ExactDiv(grid.dx * grid.dx * Q[c] * Scale, k), 5)

\* Stencil without the i - 1 neighbour.
StencilNoWest(T_old, c) ==
    ExactDiv( T_old[<<c[1] + 1, c[2], c[3]>>]
            + T_old[<<c[1], c[2] + 1, c[3]>>]
            + T_old[<<c[1], c[2] - 1, c[3]>>]
            + T_old[<<c[1], c[2], c[3] + 1>>]
            + T_old[<<c[1], c[2], c[3] - 1>>]
            + ExactDiv(grid.dx * grid.dx * Q[c] * Scale, k), 6)

\* Stencil without the k_ - 1 neighbour.
StencilFiveNeighbours(T_old, c) ==
    ExactDiv( T_old[<<c[1] + 1, c[2], c[3]>>]
            + T_old[<<c[1] - 1, c[2], c[3]>>]
            + T_old[<<c[1], c[2] + 1, c[3]>>]
            + T_old[<<c[1], c[2] - 1, c[3]>>]
            + T_old[<<c[1], c[2], c[3] + 1>>]
            + ExactDiv(grid.dx * grid.dx * Q[c] * Scale, k), 6)

\* The finite difference update of one interior cell from the snapshot T_old.
Stencil(T_old, c) ==
    ExactDiv( T_old[<<c[1] + 1, c[2], c[3]>>]
            + T_old[<<c[1] - 1, c[2], c[3]>>]
            + T_old[<<c[1], c[2] + 1, c[3]>>]
            + T_old[<<c[1], c[2] - 1, c[3]>>]
            + T_old[<<c[1], c[2], c[3] + 1>>]
            + T_old[<<c[1], c[2], c[3] - 1>>]
            + ExactDiv(grid.dx * grid.dx * Q[c] * Scale, k), 6)

\* The sweep writing into a freshly zeroed array.
SweptIntoZeros(T_old) ==
    [c \in DOMAIN T_old |-> IF c \in Interior THEN Stencil(T_old, c) ELSE 0]

\* The sweep without the snapshot: every cell is updated in loop order from
\* the array being written.
SweptInPlace(T_old) ==
    LET Nth(n) == << 1 + ((n - 1) \div ((ny - 2) * (nz - 2))),
                     1 + (((n - 1) \div (nz - 2)) % (ny - 2)),
                     1 + ((n - 1) % (nz - 2)) >>
        RECURSIVE Upd(_)
        Upd(n) == IF n = 0 THEN T_old
                  ELSE LET P == Upd(n - 1)
                       IN  [P EXCEPT ![Nth(n)] = Stencil(P, Nth(n))]
    IN  Upd(Cardinality(Interior))

\* T_old = T.copy() and the three nested loops over the interior.
Swept(T_old) ==
    [c \in DOMAIN T_old |-> IF c \in Interior THEN Stencil(T_old, c)
                            ELSE T_old[c]]

MinAbsDiff(Tn, T_old) == MinOf({ Abs(Tn[c] - T_old[c]) : c \in Interior })

\* np.max(np.abs(T - T_old))
MaxAbsDiff(Tn, T_old) == MaxOf({ Abs(Tn[c] - T_old[c]) : c \in DOMAIN Tn })

\* error <= tol
AtMost(e, t) == e <= t

\* error < tol
Below(e, t) == e < t

\* The loop clearing the source field in every pass.
SweepClearingQ ==
    /\ pc = "solve"
    /\ sweeps < max_iter
    /\ it' = sweeps
    /\ sweeps' = sweeps + 1
    /\ T' = Swept(T)
    /\ Q' = [c \in DOMAIN Q |-> 0]
    /\ IF Cells = {}
       THEN /\ Abort("ValueError")
            /\ UNCHANGED <<error, converged>>
       ELSE /\ error' = MaxAbsDiff(Swept(T), T)
            /\ converged' = Below(error', tol)
            /\ pc' = IF converged' \/ sweeps' >= max_iter THEN "summary"
                     ELSE "solve"
            /\ UNCHANGED <<fault, exitCode>>
    /\ UNCHANGED <<ui, vtk, doc, nx, ny, nz, src, warnings, summary, files, heat_flux>>

\* The loop running one pass more than max_iter.
SweepPastCap ==
    /\ pc = "solve"
    /\ sweeps <= max_iter
    /\ it' = sweeps
    /\ sweeps' = sweeps + 1
    /\ T' = Swept(T)
    /\ IF Cells = {}
       THEN /\ Abort("ValueError")
            /\ UNCHANGED <<error, converged>>
       ELSE /\ error' = MaxAbsDiff(Swept(T), T)
            /\ converged' = Below(error', tol)
            /\ pc' = IF converged' \/ sweeps' > max_iter THEN "summary"
                     ELSE "solve"
            /\ UNCHANGED <<fault, exitCode>>
    /\ UNCHANGED <<ui, vtk, doc, nx, ny, nz, Q, src, warnings, summary, files, heat_flux>>

\* One pass of the Jacobi loop: snapshot, sweep, error, convergence test.
Sweep ==
    /\ pc = "solve"
    /\ sweeps < max_iter
    /\ it' = sweeps
    /\ sweeps' = sweeps + 1
    /\ T' = Swept(T)
    /\ IF Cells = {}
       THEN /\ Abort("ValueError")
            /\ UNCHANGED <<error, converged>>
       ELSE /\ error' = MaxAbsDiff(Swept(T), T)
            /\ converged' = Below(error', tol)
            /\ pc' = IF converged' \/ sweeps' >= max_iter THEN "summary"
                     ELSE "solve"
            /\ UNCHANGED <<fault, exitCode>>
    /\ UNCHANGED <<ui, vtk, doc, nx, ny, nz, Q, src, warnings, summary, files,
                   heat_flux>>

\* The value written under "iterations".
Iterations == it

\* Position of cell c in the row-major (C order, last index fastest) flat view
\* that np.argmin / np.argmax scan, and np.unravel_index back to a cell.
RavelC(c) == (c[1] * ny + c[2]) * nz + c[3]

UnravelC(p) == << p \div (ny * nz), (p \div nz) % ny, p % nz >>

ArgLast(Tf, v) ==
    LET P == { RavelC(c) : c \in { d \in Cells : Tf[d] = v } }
    IN  CHOOSE p \in P : \A q \in P : p >= q

\* np.argmin / np.argmax: the first flat position holding the extreme value v.
ArgFirst(Tf, v) ==
    LET P == { RavelC(c) : c \in { d \in Cells : Tf[d] = v } }
    IN  CHOOSE p \in P : \A q \in P : p <= q

\* Write Summary Statistics.
WriteSummary ==
    /\ pc = "summary"
    /\ IF Cells = {}
       THEN /\ Abort("ValueError")
            /\ UNCHANGED <<summary, files>>
       ELSE /\ summary' = << [min_temperature |-> MinOf({ T[c] : c \in Cells }),
                              max_temperature |-> MaxOf({ T[c] : c \in Cells }),
                              mean_temperature |-> << SumOver(T, Cells), Cardinality(Cells) >>,
                              argmin_index |-> UnravelC(ArgFirst(T, MinOf({ T[c] : c \in Cells }))),
                              argmax_index |-> UnravelC(ArgFirst(T, MaxOf({ T[c] : c \in Cells }))),
                              total_heat_input |-> SumOver(Q, Cells),
                              iterations |-> Iterations] >>
            /\ files' = files \cup {"summary.json"}
            /\ pc' = "export_temp"
            /\ UNCHANGED <<fault, exitCode>>
    /\ UNCHANGED <<ui, vtk, doc, nx, ny, nz, T, Q, src, warnings, it, sweeps, error,
                   converged, heat_flux>>

\* Cell at 0-based position p of a column-major (order="F", first index
\* fastest) traversal of an (nx, ny, nz) array.
UnravelF(p) == << p % nx, (p \div nx) % ny, p \div (nx * ny) >>

FlattenC(arr) == [p \in 1..(nx * ny * nz) |-> arr[UnravelC(p - 1)]]

\* arr.flatten(order="F").
FlattenF(arr) == [p \in 1..(nx * ny * nz) |-> arr[UnravelF(p - 1)]]

\* Element f of the order="F" traversal of the stacked (nx, ny, nz, 3) array:
\* the component index is the slowest.
FluxFlatF(hf, f) == hf[UnravelF(f % (nx * ny * nz))][(f \div (nx * ny * nz)) + 1]

\* hf.reshape(-1, 3, order="F"): the traversal is laid out column by column
\* into nx*ny*nz rows of 3.
ReshapeF(hf) ==
    [r \in 1..(nx * ny * nz) |->
        [col \in 1..3 |-> FluxFlatF(hf, (r - 1) + (nx * ny * nz) * (col - 1))]]

\* np.linspace(lo, hi, n): n samples from lo to hi, both included, each as
\* the fraction <<numerator, denominator>>.
Linspace(lo, hi, n) ==
    [i \in 1..n |-> IF n = 1 THEN <<lo, 1>>
                    ELSE <<lo * (n - 1) + (i - 1) * (hi - lo), n - 1>>]

\* Common grid coordinates, and the Temperature Field: the rectilinear grid
\* is saved as Temperature.vtr.
ExportTemperature ==
    /\ pc = "export_temp"
    /\ vtk' = [vtk EXCEPT !.x_coords = Linspace(material.xmin, material.xmax, nx),
                           !.y_coords = Linspace(material.ymin, material.ymax, ny),
                           !.z_coords = Linspace(material.zmin, material.zmax, nz),
                           !.Temperature = FlattenF(T)]
    /\ files' = files \cup {"Temperature.vtr"}
    /\ pc' = "flux"
    /\ UNCHANGED <<ui, doc, fault, exitCode, nx, ny, nz, T, Q, src, warnings, it,
                   sweeps, error, converged, summary, heat_flux>>

\* np.gradient needs at least two samples along every axis.
GradientDefined == nx >= 2 /\ ny >= 2 /\ nz >= 2

\* The differences divided by dx on every axis.
GradientSpacingDx(Tf, c, axis, n, h) ==
    LET lo == [c EXCEPT ![axis] = @ - 1]
        hi == [c EXCEPT ![axis] = @ + 1]
    IN  IF c[axis] = 0 THEN ExactDiv(4 * (Tf[hi] - Tf[c]), grid.dx)
        ELSE IF c[axis] = n - 1 THEN ExactDiv(4 * (Tf[c] - Tf[lo]), grid.dx)
        ELSE ExactDiv(2 * (Tf[hi] - Tf[lo]), grid.dx)

\* 4 * (d T / d axis) at cell c (spacing h, n samples): central difference
\* inside, one-sided difference at the first and the last index.
Gradient(Tf, c, axis, n, h) ==
    LET lo == [c EXCEPT ![axis] = @ - 1]
        hi == [c EXCEPT ![axis] = @ + 1]
    IN  IF c[axis] = 0 THEN ExactDiv(4 * (Tf[hi] - Tf[c]), h)
        ELSE IF c[axis] = n - 1 THEN ExactDiv(4 * (Tf[c] - Tf[lo]), h)
        ELSE ExactDiv(2 * (Tf[hi] - Tf[lo]), h)

\* Compute gradients and heat flux (components in units of 1/(4*Scale)).
ComputeFlux ==
    /\ pc = "flux"
    /\ IF ~GradientDefined
       THEN /\ Abort("ValueError")
            /\ UNCHANGED heat_flux
       ELSE /\ heat_flux' =
                 [c \in Cells |-> << -k * Gradient(T, c, 1, nx, grid.dx),
                                     -k * Gradient(T, c, 2, ny, grid.dy),
                                     -k * Gradient(T, c, 3, nz, grid.dz) >>]
            /\ pc' = "export_flux"
            /\ UNCHANGED <<fault, exitCode>>
    /\ UNCHANGED <<ui, vtk, doc, nx, ny, nz, T, Q, src, warnings, it, sweeps, error,
                   converged, summary, files>>

\* HeatFlux.vtr is saved, the closing message printed, and the process ends.
ExportFlux ==
    /\ pc = "export_flux"
    /\ vtk' = [vtk EXCEPT !.HeatFlux = ReshapeF(heat_flux)]
    /\ files' = files \cup {"HeatFlux.vtr"}
    /\ pc' = "done"
    /\ exitCode' = 0
    /\ UNCHANGED <<ui, doc, fault, nx, ny, nz, T, Q, src, warnings, it, sweeps,
                   error, converged, summary, heat_flux>>

Next ==
    \/ Parse
    \/ GridSetup
    \/ InsertSource
    \/ ApplyBoundaries
    \/ Sweep
    \/ WriteSummary
    \/ ExportTemperature
    \/ ComputeFlux
    \/ ExportFlux

Spec == Init /\ [][Next]_vars

\* The same program run on the documents of StudyDocs.
StudySpec == StudyInit /\ [][Next]_vars

\* The interpreter keeps executing the script: each stage up to and including
\* the relaxation loop runs when it can.
FairSpec ==
    /\ Init /\ [][Next]_vars
    /\ WF_vars(Parse \/ GridSetup \/ InsertSource \/ ApplyBoundaries \/ Sweep)

----------------------------------------------------------------------------
\* Every division of the model is exact.
ExactArithmetic ==
    pc \in {"solve"} =>
       \A c \in Interior :
          /\ (grid.dx * grid.dx * Q[c] * Scale) % Abs(k) = 0
          /\ ( T[<<c[1] + 1, c[2], c[3]>>] + T[<<c[1] - 1, c[2], c[3]>>]
             + T[<<c[1], c[2] + 1, c[3]>>] + T[<<c[1], c[2] - 1, c[3]>>]
             + T[<<c[1], c[2], c[3] + 1>>] + T[<<c[1], c[2], c[3] - 1>>]
             + ExactDiv(grid.dx * grid.dx * Q[c] * Scale, k) ) % 6 = 0

----------------------------------------------------------------------------
\* The user-interface model (model/simulation.py) and its tree binding
\* (controller/simulation_binding.py, controller/simulation_manager.py).

solverVars == <<doc, pc, fault, exitCode, nx, ny, nz, T, Q, src, warnings,
                it, sweeps, error, converged, summary, files, heat_flux, vtk>>

\* A user action changes the tree; the result of an earlier call of
\* as_api_model is gone.
Edited(u) == [u EXCEPT !.api_model = [outcome |-> "none"]]

on_new_material_triggered ==
    /\ Len(ui.material_settings) < MaxElements
    /\ ui' = Edited([ui EXCEPT !.material_settings = Append(@, 0)])
    /\ UNCHANGED solverVars

on_new_source_triggered ==
    /\ Len(ui.source_setings) < MaxElements
    /\ ui' = Edited([ui EXCEPT !.source_setings = Append(@, 0)])
    /\ UNCHANGED solverVars

on_new_boundary_triggered ==
    /\ Len(ui.boundary_settings) < MaxElements
    /\ ui' = Edited([ui EXCEPT !.boundary_settings = Append(@, 0)])
    /\ UNCHANGED solverVars

\* The user assigns a geometry to a material or to a source (HasGeometries).
AssignGeometry ==
    /\ \/ \E m \in 1..Len(ui.material_settings) :
             /\ ui.material_settings[m] < MaxGeometries
             /\ ui' = Edited([ui EXCEPT !.material_settings[m] = @ + 1])
       \/ \E n \in 1..Len(ui.source_setings) :
             /\ ui.source_setings[n] < MaxGeometries
             /\ ui' = Edited([ui EXCEPT !.source_setings[n] = @ + 1])
    /\ UNCHANGED solverVars

\* Simulation.validate.
validate(u) == Len(u.boundary_settings) # 0

\* The ways a call of Simulation.as_api_model on u can end.  The bounding
\* box of a material without geometry is computed by the host application:
\* it may raise or return; a source without exactly one geometry fails its
\* assertion.
Outcomes(u) ==
    IF ~validate(u) THEN {"RuntimeError"}
    ELSE (IF \E m \in 1..Len(u.material_settings) : u.material_settings[m] = 0
          THEN {"Exception"} ELSE {})
         \cup (IF \E n \in 1..Len(u.source_setings) : u.source_setings[n] # 1
               THEN {"AssertionError"} ELSE {"returned"})

\* The api_models.Simulation a successful call returns: its three lists have
\* one entry per element of the groups.
ApiSimulation(u) ==
    [material_settings |-> Len(u.material_settings),
     source_setings |-> Len(u.source_setings),
     boundary_settings |-> Len(u.boundary_settings)]

as_api_model ==
    /\ \E o \in Outcomes(ui) :
          ui' = [ui EXCEPT !.api_model =
                    IF o = "returned"
                    THEN [outcome |-> o, simulation |-> ApiSimulation(ui)]
                    ELSE [outcome |-> o]]
    /\ UNCHANGED solverVars

\* What a call produces: a returned value or a raised exception.
Returned(v) == [value |-> v]

Raised(e) == [raised |-> e]

\* SimulationBinding.count_children with one child too many under Materials.
count_children_extra(path) ==
    IF Len(path) = 2 THEN Returned(6)
    ELSE IF Len(path) = 3
    THEN CASE path[3] \in {0, 4, 5} -> Returned(0)
           [] path[3] = 1 -> Returned(Len(ui.material_settings) + 1)
           [] path[3] = 2 -> Returned(Len(ui.source_setings))
           [] path[3] = 3 -> Returned(Len(ui.boundary_settings))
           [] OTHER -> Raised("RuntimeError")
    ELSE IF Len(path) = 4
    THEN IF path[3] = 1
         THEN IF path[4] \in 0..(Len(ui.material_settings) - 1)
              THEN Returned(ui.material_settings[path[4] + 1])
              ELSE Raised("IndexError")
         ELSE IF path[3] = 2
         THEN IF path[4] \in 0..(Len(ui.source_setings) - 1)
              THEN Returned(ui.source_setings[path[4] + 1])
              ELSE Raised("IndexError")
         ELSE Returned(0)
    ELSE Returned(0)

\* SimulationBinding.count_children: the number of children returned, or
\* the exception raised.  path is the list of 0-based tree indices; Python's
\* path[2] is path[3] here.  Indices are taken non-negative.
count_children(path) ==
    IF Len(path) = 2 THEN Returned(6)
    ELSE IF Len(path) = 3
    THEN CASE path[3] \in {0, 4, 5} -> Returned(0)
           [] path[3] = 1 -> Returned(Len(ui.material_settings))
           [] path[3] = 2 -> Returned(Len(ui.source_setings))
           [] path[3] = 3 -> Returned(Len(ui.boundary_settings))
           [] OTHER -> Raised("RuntimeError")
    ELSE IF Len(path) = 4
    THEN IF path[3] = 1
         THEN IF path[4] \in 0..(Len(ui.material_settings) - 1)
              THEN Returned(ui.material_settings[path[4] + 1])
              ELSE Raised("IndexError")
         ELSE IF path[3] = 2
         THEN IF path[4] \in 0..(Len(ui.source_setings) - 1)
              THEN Returned(ui.source_setings[path[4] + 1])
              ELSE Raised("IndexError")
         ELSE Returned(0)
    ELSE Returned(0)

\* The settings object get_tree_item selects for the category path[2].
sim_child(cat) ==
    CASE cat = 0 -> <<"SetupSettings">>
      [] cat = 1 -> <<"Materials">>
      [] cat = 2 -> <<"Sources">>
      [] cat = 3 -> <<"Boundaries">>
      [] cat = 4 -> <<"GridSettings">>
      [] cat = 5 -> <<"SolverSettings">>
      [] OTHER -> <<"None">>

\* SimulationBinding.get_tree_item: the item at the path, "None", or the
\* exception raised.
get_tree_item(path) ==
    IF Len(path) = 2 THEN <<"Simulation">>
    ELSE IF sim_child(path[3]) = <<"None">> THEN <<"None">>
    ELSE IF Len(path) = 3 THEN sim_child(path[3])
    ELSE IF Len(path) = 4 /\ path[3] \in {1, 2, 3}
    THEN LET elements == CASE path[3] = 1 -> ui.material_settings
                           [] path[3] = 2 -> ui.source_setings
                           [] path[3] = 3 -> ui.boundary_settings
             kind == CASE path[3] = 1 -> "MaterialSettings"
                       [] path[3] = 2 -> "SourceSettings"
                       [] path[3] = 3 -> "BoundarySettings"
         IN  IF path[4] \in 0..(Len(elements) - 1) THEN <<kind, path[4]>>
             ELSE <<"IndexError">>
    ELSE IF Len(path) = 5 /\ path[3] \in {1, 2}
    THEN LET elements == IF path[3] = 1 THEN ui.material_settings
                         ELSE ui.source_setings
         IN  IF /\ path[4] \in 0..(Len(elements) - 1)
                /\ path[5] \in 0..(elements[path[4] + 1] - 1)
             THEN <<"Geometry", path[3], path[4], path[5]>>
             ELSE <<"IndexError">>
    ELSE <<"None">>

UiNext ==
    \/ on_new_material_triggered
    \/ on_new_source_triggered
    \/ on_new_boundary_triggered
    \/ AssignGeometry
    \/ as_api_model

\* A new simulation in the user interface; the solver is not started.
UiInit == doc = BaseDoc /\ Start

\* The user interface from a new simulation on.
UiSpec == UiInit /\ [][UiNext]_vars

----------------------------------------------------------------------------
\* Vocabulary of the properties.

\* The document has every required key and a material.
WellFormed == doc.present /\ Len(doc.material_settings) > 0

\* The numeric constraints of the data model.
NumericallyValid ==
    /\ k > 0
    /\ grid.dx > 0 /\ grid.dy > 0 /\ grid.dz > 0
    /\ tol > 0
    /\ max_iter >= 1

\* floor((max - min) / spacing) + 1 >= 3 on every axis.
RoomForInterior ==
    /\ material.xmax - material.xmin >= 2 * grid.dx
    /\ material.ymax - material.ymin >= 2 * grid.dy
    /\ material.zmax - material.zmin >= 2 * grid.dz

\* min < max on every axis.
BoxOrdered ==
    /\ material.xmin < material.xmax
    /\ material.ymin < material.ymax
    /\ material.zmin < material.zmax

\* A document that satisfies the data model.
ValidInput == WellFormed /\ NumericallyValid /\ BoxOrdered

GridBuilt == pc \notin {"parse", "grid"} /\ fault \notin {"KeyError", "ZeroDivisionError"} /\ WellFormed

\* The relaxation loop has terminated.
LoopEnded == pc \in {"summary", "export_temp", "flux", "export_flux", "done"}

SummaryWritten == Len(summary) = 1

NoSources == Len(doc.source_setings) = 0

\* All six faces carry a condition, all with the temperature T0.
T0 == BcMap("xmin")
SameOnAllFaces ==
    \A n \in 1..6 : BcSet(DIRICHLET_FACES[n])
                    /\ BcMap(DIRICHLET_FACES[n]) = BcMap("xmin")

Between(v, a, b) == (a <= v /\ v <= b) \/ (b <= v /\ v <= a)

----------------------------------------------------------------------------
\* C1 (as stated): with nx, ny, nz >= 3, no sources and the same temperature
\* T0 on all six faces of a valid configuration, the loop ends converged
\* after exactly one sweep with T = T0 in every cell.
C1_UniformOneSweep ==
    ( /\ LoopEnded /\ ValidInput
      /\ nx >= 3 /\ ny >= 3 /\ nz >= 3
      /\ NoSources /\ SameOnAllFaces )
    => /\ converged
       /\ sweeps = 1
       /\ \A c \in Cells : T[c] = T0 * Scale

\* C1 (amended): in the same case, at the end of the loop every non-interior
\* cell equals T0 and every interior cell lies between 0 and T0; the loop
\* converges in exactly one sweep only if |T0| / 2 < tol; on the 3 x 3 x 3
\* grid the field equals T0 everywhere once a sweep has run, and with
\* 0 < tol <= |T0| and max_iter >= 2 it converges in exactly two sweeps.
C1_UniformAmended ==
    ( /\ LoopEnded /\ WellFormed
      /\ nx >= 3 /\ ny >= 3 /\ nz >= 3
      /\ NoSources /\ SameOnAllFaces )
    => /\ \A c \in Cells \ Interior : T[c] = T0 * Scale
       /\ \A c \in Interior : Between(T[c], 0, T0 * Scale)
       /\ (converged /\ sweeps = 1) => Abs(T0) * Scale < 2 * tol
       /\ (nx = 3 /\ ny = 3 /\ nz = 3 /\ sweeps >= 1)
            => \A c \in Cells : T[c] = T0 * Scale
       /\ ( /\ nx = 3 /\ ny = 3 /\ nz = 3
            /\ 0 < tol /\ tol <= Abs(T0) * Scale /\ max_iter >= 2 )
            => (converged /\ sweeps = 2)

\* C1 witness: a finished 3 x 3 x 3 run with T0 = 100 on all faces that
\* converged in its second sweep.
C1_Witness ==
    /\ pc = "done" /\ NoSources /\ SameOnAllFaces /\ T0 = 100
    /\ nx = 3 /\ ny = 3 /\ nz = 3
    /\ converged /\ sweeps = 2
    /\ \A c \in Cells : T[c] = 100 * Scale

\* C2: a run on a valid document that exhausts max_iter sweeps without
\* meeting tol writes summary.json with iterations = max_iter, and both grid
\* files.
C2_CapReported ==
    (ValidInput /\ RoomForInterior /\ ~converged /\ sweeps = max_iter)
       => /\ SummaryWritten => summary[1].iterations = max_iter
          /\ pc = "done" => files = Artifacts

\* C3: a converged run on a valid document reports the number of sweeps
\* executed, the converging sweep included.
C3_ConvergedCount ==
    (ValidInput /\ RoomForInterior /\ SummaryWritten /\ converged)
       => summary[1].iterations = sweeps

\* What a run that exhausts max_iter >= 1 sweeps writes under "iterations",
\* the only entry of the summary that depends on the loop's outcome.
C4_ExhaustedReport ==
    (SummaryWritten /\ ~converged /\ max_iter >= 1)
       => summary[1].iterations = max_iter - 1

\* C4: the summary of a converged run on a valid document differs in its
\* convergence information from the summary of a run with the same max_iter
\* that exhausted its sweeps.
C4_Distinguishable ==
    (ValidInput /\ RoomForInterior /\ SummaryWritten /\ converged)
       => summary[1].iterations # max_iter - 1

\* The sum of the rates of the first n sources whose index is cell c.
RECURSIVE RateSum(_, _)
RateSum(c, n) ==
    IF n = 0 THEN 0
    ELSE RateSum(c, n - 1)
         + (IF SourceIndex(doc.source_setings[n]) = c
            THEN doc.source_setings[n].volumetric_heat_source ELSE 0)

\* C5: after the source loop of a run on a valid document, Q at every cell is
\* the sum of the rates of the sources whose computed index is that cell.
C5_Additive ==
    (ValidInput /\ RoomForInterior /\ GridBuilt /\ src > Len(doc.source_setings))
       => \A c \in DOMAIN Q : Q[c] = RateSum(c, Len(doc.source_setings))

\* The source lies outside the material box on at least one axis.
OutsideBox(s) ==
    \/ s.x < material.xmin \/ s.x > material.xmax
    \/ s.y < material.ymin \/ s.y > material.ymax
    \/ s.z < material.zmin \/ s.z > material.zmax

\* The pass of the source loop skips s: warning logged, Q untouched, the loop
\* goes on.
Skips(s) ==
    /\ warnings' = Append(warnings, s)
    /\ Q' = Q
    /\ pc' = "sources" /\ src' = src + 1 /\ fault' = "none"

\* C6 (as stated): every source of a valid document that lies outside the
\* material box on some axis is skipped with a warning and leaves Q unchanged.
C6_OutsideSkipped ==
    [][ (pc = "sources" /\ src <= Len(doc.source_setings)
         /\ ValidInput /\ RoomForInterior
         /\ OutsideBox(doc.source_setings[src]))
        => Skips(doc.source_setings[src]) ]_vars

\* The computed index int((coord - min) / spacing) is outside [0, n) on some
\* axis.
IndexOutside(s) ==
    LET c == SourceIndex(s)
    IN  \/ c[1] < 0 \/ c[1] >= nx
        \/ c[2] < 0 \/ c[2] >= ny
        \/ c[3] < 0 \/ c[3] >= nz

\* coord <= min - spacing or coord >= min + n * spacing on some axis.
BeyondEdgeCell(s) ==
    \/ s.x <= material.xmin - grid.dx \/ s.x >= material.xmin + nx * grid.dx
    \/ s.y <= material.ymin - grid.dy \/ s.y >= material.ymin + ny * grid.dy
    \/ s.z <= material.zmin - grid.dz \/ s.z >= material.zmin + nz * grid.dz

\* C6 (amended): a source is skipped with a warning, leaving Q unchanged and
\* the run going on, exactly when its computed index is outside [0, n) on
\* some axis; for positive spacings these are the sources with
\* coord <= min - spacing or coord >= min + n * spacing on some axis.  Every
\* other source, inside the box or not, is stored in Q without a warning.
C6_IndexOutsideSkipped ==
    [][ (pc = "sources" /\ src <= Len(doc.source_setings))
        => LET s == doc.source_setings[src]
           IN  /\ IF IndexOutside(s) THEN Skips(s)
                  ELSE /\ warnings' = warnings
                       /\ Q'[SourceIndex(s)] = s.volumetric_heat_source
               /\ (grid.dx > 0 /\ grid.dy > 0 /\ grid.dz > 0)
                    => (IndexOutside(s) <=> BeyondEdgeCell(s)) ]_vars

\* C6 witness: a finished run whose only source had an index outside [0, n),
\* was skipped with a warning and left Q zero in every cell.
C6_Witness ==
    /\ pc = "done"
    /\ Len(doc.source_setings) = 1
    /\ warnings = doc.source_setings /\ IndexOutside(warnings[1])
    /\ \A c \in Cells : Q[c] = 0

\* C7: for a valid document nx, ny, nz are floor((max - min) / spacing) + 1,
\* and when one of them is below 3 no sweep is executed and no artifact is
\* written.
C7_DomainError ==
    (ValidInput /\ GridBuilt) =>
       /\ nx = ExactDiv(material.xmax - material.xmin, grid.dx) + 1
       /\ ny = ExactDiv(material.ymax - material.ymin, grid.dy) + 1
       /\ nz = ExactDiv(material.zmax - material.zmin, grid.dz) + 1
       /\ (nx < 3 \/ ny < 3 \/ nz < 3)
            => (sweeps = 0 /\ files = {} /\ ~SummaryWritten)

\* C8: a document with a missing key, conductivity <= 0, a spacing <= 0,
\* tolerance <= 0 or max_iter < 1 is rejected before the grid is allocated:
\* no sweep, no artifact.
C8_Rejected ==
    (~doc.present \/ (WellFormed /\ BoxOrdered /\ ~NumericallyValid))
       => /\ DOMAIN T = {} /\ DOMAIN Q = {}
          /\ sweeps = 0 /\ files = {} /\ ~SummaryWritten

\* C9: a run that aborts (here: on a valid document) has written none or all
\* of the three artifacts.
C9_NoPartialOutput ==
    (ValidInput /\ pc = "aborted") => (files = {} \/ files = Artifacts)

\* C10: a well-formed, numerically valid document whose grid has an interior
\* never aborts, whatever its sources and whether or not it converges; when
\* it ends it has exit code 0 and has written all three artifacts.
C10_NonFatal ==
    (ValidInput /\ RoomForInterior)
       => /\ pc # "aborted" /\ fault = "none"
          /\ pc # "done" => exitCode = -1
          /\ pc = "done" => (exitCode = 0 /\ files = Artifacts /\ SummaryWritten)

\* C10 witness: a finished run with exit code 0 and all three artifacts that
\* skipped an out-of-range source and did not converge.
C10_Witness ==
    /\ pc = "done" /\ exitCode = 0 /\ files = Artifacts
    /\ ValidInput /\ RoomForInterior
    /\ Len(warnings) > 0
    /\ ~converged /\ sweeps = max_iter

----------------------------------------------------------------------------
\* Sum of the six face neighbours of cell c in the field Tf.
NeighbourSum(Tf, c) ==
      Tf[<<c[1] + 1, c[2], c[3]>>] + Tf[<<c[1] - 1, c[2], c[3]>>]
    + Tf[<<c[1], c[2] + 1, c[3]>>] + Tf[<<c[1], c[2] - 1, c[3]>>]
    + Tf[<<c[1], c[2], c[3] + 1>>] + Tf[<<c[1], c[2], c[3] - 1>>]

\* dx^2 * Q / k at cell c, in units of 1/Scale.
SourceTerm(c) == ExactDiv(grid.dx * grid.dx * Q[c] * Scale, k)

\* Discrete energy balance of cell c: sum of neighbours - 6 T + dx^2 Q / k.
Residual(Tf, c) == NeighbourSum(Tf, c) - 6 * Tf[c] + SourceTerm(c)

\* C11 (as stated): when the loop ended converged, the residual of every
\* interior cell is at most tol in magnitude.
C11_Conservation ==
    (LoopEnded /\ converged /\ ValidInput)
       => \A c \in Interior : Abs(Residual(T, c)) <= tol

\* C11 (amended): when the loop ended converged, the residual of every
\* interior cell is below 6 * tol in magnitude: the stop test bounds the
\* change of each of the six neighbours, not the residual itself.
C11_ResidualBound ==
    (LoopEnded /\ converged /\ ValidInput)
       => \A c \in Interior : Abs(Residual(T, c)) < 6 * tol

\* C11 witness: a finished, converged run in which an interior cell has a
\* residual above tol.
C11_Witness ==
    /\ pc = "done" /\ converged /\ ValidInput
    /\ \E c \in Interior : Abs(Residual(T, c)) > tol

\* C12: in the linear-gradient scenario (3 x 3 x 3, xmin = 100, xmax = 0,
\* other faces unconstrained, k = 1, no sources) the loop ends converged
\* before the iteration cap, and the centre cell (1,1,1) holds 100/6, which
\* is below the 50 of a linear profile.
C12_LinearGradient ==
    (doc = ScenarioDoc /\ LoopEnded)
       => /\ converged
          /\ sweeps < max_iter
          /\ 6 * T[<<1, 1, 1>>] = 100 * Scale
          /\ T[<<1, 1, 1>>] < 50 * Scale

\* C12 witness: the scenario ran to its end and converged in its second sweep.
C12_Witness ==
    /\ doc = ScenarioDoc /\ pc = "done"
    /\ nx = 3 /\ ny = 3 /\ nz = 3
    /\ converged /\ sweeps = 2
    /\ 6 * T[<<1, 1, 1>>] = 100 * Scale

\* Position of cell c in an x-fastest enumeration of the grid.
XFastest(c) == c[1] + nx * (c[2] + ny * c[3])

\* C13: in both exported files the point data at flat position
\* i + nx * (j + ny * k) is the value of cell (i, j, k): T[i,j,k] in
\* Temperature and (q_x, q_y, q_z)[i,j,k] in HeatFlux.
C13_ExportOrdering ==
    /\ "Temperature.vtr" \in files =>
          /\ Len(vtk.Temperature) = nx * ny * nz
          /\ \A c \in Cells : vtk.Temperature[XFastest(c) + 1] = T[c]
    /\ "HeatFlux.vtr" \in files =>
          /\ Len(vtk.HeatFlux) = nx * ny * nz
          /\ \A c \in Cells : \A a \in 1..3 :
                vtk.HeatFlux[XFastest(c) + 1][a] = heat_flux[c][a]

\* C13 witness: both files written for a grid with nx # ny # nz whose field
\* and flux are not uniform, so that a z-fastest layout would differ.
C13_Witness ==
    /\ pc = "done" /\ files = Artifacts
    /\ nx = 5 /\ ny = 3 /\ nz = 3
    /\ \E c \in Cells : vtk.Temperature[RavelC(c) + 1] # T[c]
    /\ \E c \in Cells : vtk.HeatFlux[RavelC(c) + 1][1] # heat_flux[c][1]

\* Position of cell c in a z-fastest (row-major) enumeration of the grid.
ZFastest(c) == c[3] + nz * (c[2] + ny * c[1])

Coldest == { c \in Cells : \A d \in Cells : T[c] <= T[d] }
Hottest == { c \in Cells : \A d \in Cells : T[d] <= T[c] }

AxisLen(a) == <<nx, ny, nz>>[a]
AxisSpacing(a) == <<grid.dx, grid.dy, grid.dz>>[a]

\* Exported flux component a of cell c, in units of 1/(4*Scale).
ExportedFlux(c, a) == vtk.HeatFlux[XFastest(c) + 1][a]

Shifted(c, a, d) == [c EXCEPT ![a] = @ + d]

\* C16: every exported flux component is -k times the finite-difference
\* gradient of the final T along its axis: (T[+1] - T[-1]) / (2 * spacing)
\* where the cell has two neighbours on the axis, (T[+1] - T[0]) / spacing at
\* the first index and (T[0] - T[-1]) / spacing at the last, with the spacing
\* of that axis.  (Both sides multiplied by 4 * spacing * Scale.)
C16_FluxIsMinusKGradient ==
    "HeatFlux.vtr" \in files =>
       \A c \in Cells : \A a \in 1..3 :
          LET q == ExportedFlux(c, a)
              h == AxisSpacing(a)
          IN  IF c[a] = 0
              THEN q * h = -4 * k * (T[Shifted(c, a, 1)] - T[c])
              ELSE IF c[a] = AxisLen(a) - 1
              THEN q * h = -4 * k * (T[c] - T[Shifted(c, a, -1)])
              ELSE q * h = -2 * k * (T[Shifted(c, a, 1)] - T[Shifted(c, a, -1)])

\* C16 witness: a finished run with dx # dy with a non-zero x flux at a
\* first-index cell, at a last-index cell and at a cell with two x neighbours.
C16_Witness ==
    /\ pc = "done" /\ "HeatFlux.vtr" \in files
    /\ grid.dx # grid.dy
    /\ \E c \in Cells : c[1] = 0 /\ ExportedFlux(c, 1) # 0
    /\ \E c \in Cells : c[1] = nx - 1 /\ ExportedFlux(c, 1) # 0
    /\ \E c \in Cells : 0 < c[1] /\ c[1] < nx - 1 /\ ExportedFlux(c, 1) # 0

\* C17: a sweep gives every interior cell the value (sum of its six
\* neighbours in the field as it was when the sweep started + dx^2 * Q / k)
\* / 6: no cell sees a value written by the same sweep, and dy and dz do not
\* enter.
C17_JacobiSweep ==
    [][ pc = "solve" =>
           \A c \in Interior :
              6 * T'[c] = NeighbourSum(T, c) + ExactDiv(grid.dx * grid.dx * Q[c] * Scale, k) ]_vars

\* C17 witness: after a sweep of a grid with several interior cells, with
\* dy # dx, a source in an interior cell and neighbouring interior cells that
\* hold different values.
C17_Witness ==
    /\ sweeps >= 2 /\ LoopEnded
    /\ nx = 5 /\ grid.dy # grid.dx
    /\ \E c \in Interior : Q[c] # 0
    /\ T[<<1, 1, 1>>] # T[<<2, 1, 1>>]

\* The boundary conditions have been applied.
BoundariesApplied == pc = "solve" \/ LoopEnded

\* Cell c lies on a face that carries a boundary condition.
OnConstrainedFace(c) ==
    \E n \in 1..Len(doc.boundary_settings) : OnFace(c, doc.boundary_settings[n].face)

\* C18: once the boundary conditions are applied, no step up to the end of
\* the run changes a cell of the outer layer of the grid, and the cells of
\* that layer that lie on no constrained face hold 0.
C18_BoundaryFrozen ==
    /\ [][ BoundariesApplied => \A c \in Cells \ Interior : T'[c] = T[c] ]_vars
    /\ [](BoundariesApplied =>
             \A c \in Cells \ Interior : ~OnConstrainedFace(c) => T[c] = 0)

\* C18 witness: a finished run of at least two sweeps that changed the
\* interior, with a non-zero constrained boundary cell and an unconstrained
\* boundary cell next to a non-zero interior cell.
C18_Witness ==
    /\ pc = "done" /\ sweeps >= 2
    /\ T[<<1, 1, 1>>] # 0
    /\ \E c \in Cells \ Interior : OnConstrainedFace(c) /\ T[c] # 0
    /\ ~OnConstrainedFace(<<0, 1, 1>>) /\ T[<<0, 1, 1>>] = 0

\* Every cell changed by less than tol in the step.
ChangeBelowTol == \A c \in Cells : Abs(T'[c] - T[c]) < tol

\* C19: the loop stops right after the first sweep whose largest change of a
\* cell is strictly below tol and runs no sweep after it; if no sweep meets
\* the test it runs exactly max_iter sweeps.
C19_StopRule ==
    /\ [][ (pc = "solve" /\ Cells # {}) =>
              /\ sweeps' = sweeps + 1
              /\ ChangeBelowTol => (converged' /\ pc' = "summary")
              /\ ~ChangeBelowTol =>
                    /\ ~converged'
                    /\ pc' = IF sweeps' = max_iter THEN "summary" ELSE "solve" ]_vars
    /\ [][ LoopEnded => (sweeps' = sweeps /\ T' = T /\ converged' = converged) ]_vars
    /\ [](pc = "solve" => (~converged /\ sweeps < max_iter))
    /\ []((LoopEnded /\ ~converged) => sweeps = max_iter)

\* C19 witness: a finished run whose first sweep changed a cell by exactly
\* tol and therefore went on, and whose second sweep met the test and was
\* the last although the cap allowed more.
C19_Witness ==
    /\ pc = "done" /\ ValidInput
    /\ nx = 3 /\ ny = 3 /\ nz = 3
    /\ Len(doc.boundary_settings) = 0
    /\ T[<<1, 1, 1>>] = tol
    /\ converged /\ sweeps = 2 /\ max_iter > 2

\* The states of the solver loop.
Iterating == pc = "solve"
Converged == LoopEnded /\ converged
MaxIterReached == LoopEnded /\ ~converged /\ sweeps = max_iter

\* C20: with max_iter >= 1 the loop is entered from the boundary stage only,
\* runs at most max_iter sweeps and ends in exactly one of CONVERGED and
\* MAXITER_REACHED; once ended it is never entered again and neither T nor
\* the sweep count changes; and it does end: the loop of every valid
\* configuration, and every loop entered on a non-empty grid.
C20_StateMachine ==
    /\ [](max_iter >= 1 =>
            /\ sweeps <= max_iter
            /\ LoopEnded => (sweeps >= 1 /\ (Converged \/ MaxIterReached)
                                         /\ ~(Converged /\ MaxIterReached)))
    /\ [][ (Iterating' /\ ~Iterating) => (pc = "sources" /\ sweeps' = 0) ]_vars
    /\ [][ LoopEnded => (~Iterating' /\ T' = T /\ sweeps' = sweeps) ]_vars
    /\ (ValidInput /\ pc = "parse") ~> (Converged \/ MaxIterReached)
    /\ (Iterating /\ Cells # {}) ~> (Converged \/ MaxIterReached)

\* C20 witness: a valid run that ended at the cap without converging, after
\* more than one sweep.
C20_Witness ==
    /\ pc = "done" /\ ValidInput /\ RoomForInterior
    /\ MaxIterReached /\ ~Converged
    /\ sweeps = max_iter /\ max_iter >= 2

----------------------------------------------------------------------------
\* Indices of the supplied boundary conditions whose face contains cell c.
ConditionsAt(c) ==
    { n \in 1..Len(doc.boundary_settings) : OnFace(c, doc.boundary_settings[n].face) }

\* Position of a face in the order xmin, xmax, ymin, ymax, zmin, zmax.
FaceRank(face) == CHOOSE n \in 1..6 : DIRICHLET_FACES[n] = face

\* The supplied condition that comes last at cell c when the conditions are
\* taken in the order supplied.
LastSuppliedAt(c) == MaxOf(ConditionsAt(c))

\* The supplied condition that comes last at cell c when the faces are taken
\* in the fixed order and, within a face, the conditions in the order supplied.
LastAppliedAt(c) ==
    CHOOSE n \in ConditionsAt(c) :
       \A m \in ConditionsAt(c) :
          \/ FaceRank(doc.boundary_settings[m].face) < FaceRank(doc.boundary_settings[n].face)
          \/ /\ doc.boundary_settings[m].face = doc.boundary_settings[n].face
             /\ m <= n

\* C21 (as stated): once the boundary conditions are applied, every cell on
\* a constrained face holds the temperature of the condition supplied last
\* among those whose face contains it.
C21_LastSuppliedWins ==
    (BoundariesApplied /\ ValidInput) =>
       \A c \in Cells : ConditionsAt(c) # {} =>
          T[c] = doc.boundary_settings[LastSuppliedAt(c)].temperature * Scale

\* C21 (amended): once the boundary conditions are applied, every cell on a
\* constrained face holds the temperature of the face that comes last in the
\* order xmin, xmax, ymin, ymax, zmin, zmax among the constrained faces
\* containing it, and for a face that temperature is the one supplied last.
C21_FixedFaceOrder ==
    (BoundariesApplied /\ ValidInput) =>
       \A c \in Cells : ConditionsAt(c) # {} =>
          T[c] = doc.boundary_settings[LastAppliedAt(c)].temperature * Scale

\* C21 witness: boundary conditions applied where an edge cell lies on two
\* constrained faces and holds the temperature of the one supplied first.
C21_Witness ==
    /\ BoundariesApplied /\ ValidInput /\ RoomForInterior
    /\ \E c \in Cells :
          /\ Cardinality(ConditionsAt(c)) = 2
          /\ LastAppliedAt(c) # LastSuppliedAt(c)
          /\ T[c] = doc.boundary_settings[LastAppliedAt(c)].temperature * Scale
          /\ T[c] # doc.boundary_settings[LastSuppliedAt(c)].temperature * Scale

\* round(a / b) for b > 0: the nearest integer, halves to the even one.
RoundDiv(a, b) ==
    LET q == a \div b
        r == a % b
    IN  IF 2 * r < b THEN q
        ELSE IF 2 * r > b THEN q + 1
        ELSE IF q % 2 = 0 THEN q ELSE q + 1

\* The index of the node nearest to source s.
NearestIndex(s) ==
    << RoundDiv(s.x - material.xmin, grid.dx),
       RoundDiv(s.y - material.ymin, grid.dy),
       RoundDiv(s.z - material.zmin, grid.dz) >>

\* C22: after the source loop of a run on a valid document with one source,
\* a cell that received the source is the cell of the node nearest to it.
C22_NearestCell ==
    (ValidInput /\ RoomForInterior /\ GridBuilt
       /\ Len(doc.source_setings) = 1 /\ src > 1)
       => \A c \in DOMAIN Q :
             Q[c] # 0 => c = NearestIndex(doc.source_setings[1])

\* The flux field of the whole grid has been computed.
FluxComputed == DOMAIN heat_flux = Cells /\ Cells # {}

\* The first three parts of the stage order: no sweep before the sources and
\* the boundary conditions are in, no flux before the loop has ended.
RelaxationInOrder ==
    /\ pc \in {"parse", "grid"} => (DOMAIN T = {} /\ DOMAIN Q = {})
    /\ pc \in {"parse", "grid", "sources"} => sweeps = 0
    /\ FluxComputed => LoopEnded

\* C23: on a valid document the stages run in the order grid build, sources
\* and boundary conditions, relaxation loop, flux computation, result
\* writing: in particular no file is written before the flux field is computed.
C23_StageOrder ==
    ValidInput =>
       /\ RelaxationInOrder
       /\ files # {} => FluxComputed

\* Source n is accepted and no later accepted source has the same index.
Effective(n) ==
    /\ InRange(SourceIndex(doc.source_setings[n]))
    /\ \A m \in (n + 1)..Len(doc.source_setings) :
          SourceIndex(doc.source_setings[m]) # SourceIndex(doc.source_setings[n])

\* The sum of the rates of the effective sources among the first n: the sum
\* of Q as the source loop leaves it.
RECURSIVE InjectedHeat(_)
InjectedHeat(n) ==
    IF n = 0 THEN 0
    ELSE InjectedHeat(n - 1)
         + (IF Effective(n) THEN doc.source_setings[n].volumetric_heat_source ELSE 0)

\* The source loop has ended.
SourcesInjected == pc \notin {"parse", "grid"} /\ src > Len(doc.source_setings)

\* C24: no step after the source loop changes a cell of Q, so the total heat
\* input of the summary is the sum of Q as the source loop left it; and no
\* step after the grid is built changes nx, ny or nz.
C24_WriteOnce ==
    /\ [][ SourcesInjected => Q' = Q ]_vars
    /\ [][ pc \notin {"parse", "grid"} => (nx' = nx /\ ny' = ny /\ nz' = nz) ]_vars
    /\ []((SummaryWritten /\ WellFormed) =>
             summary[1].total_heat_input = InjectedHeat(Len(doc.source_setings)))

\* C24 witness: a finished run of at least two sweeps with two sources in
\* the same interior cell, whose summary reports the rate of the second.
C24_Witness ==
    /\ pc = "done" /\ sweeps >= 2 /\ ValidInput
    /\ doc.source_setings = <<SrcA, SrcB>>
    /\ Q[<<1, 1, 1>>] = 12
    /\ summary[1].total_heat_input = 12

\* The extreme values on the outer layer of the grid.
BoundaryMin == MinOf({ T[c] : c \in Cells \ Interior })
BoundaryMax == MaxOf({ T[c] : c \in Cells \ Interior })

\* No cell carries a source.
SourceFree == \A c \in DOMAIN Q : Q[c] = 0

\* The relaxation of a source-free valid run with interior cells, k > 0.
C25_Case == BoundariesApplied /\ ValidInput /\ RoomForInterior /\ SourceFree

\* C25 (as stated): in every state of such a relaxation every cell of T lies
\* between the least and the greatest value of the boundary cells.
C25_MaximumPrinciple ==
    C25_Case => \A c \in Cells : BoundaryMin <= T[c] /\ T[c] <= BoundaryMax

\* C25 (amended): in every state of such a relaxation every cell of T lies
\* between the least and the greatest of the values of the boundary cells
\* and the initial interior value 0.
C25_MaximumPrincipleWithZero ==
    C25_Case =>
       \A c \in Cells :
          /\ (BoundaryMin <= T[c] \/ 0 <= T[c])
          /\ (T[c] <= BoundaryMax \/ T[c] <= 0)

\* C25 witness: after the last sweep of a run with every boundary cell at
\* 100, an interior cell is still strictly between 0 and 100.
C25_Witness ==
    /\ C25_Case /\ pc = "done" /\ sweeps >= 1
    /\ BoundaryMin = 100 * Scale /\ BoundaryMax = 100 * Scale
    /\ \E c \in Interior : 0 < T[c] /\ T[c] < BoundaryMin

\* No supplied boundary temperature and no source rate is negative.
NonNegativeData ==
    /\ \A n \in 1..Len(doc.boundary_settings) : doc.boundary_settings[n].temperature >= 0
    /\ \A n \in 1..Len(doc.source_setings) : doc.source_setings[n].volumetric_heat_source >= 0

\* C26: with k > 0 and non-negative boundary temperatures and source rates,
\* no sweep lowers the value of any cell.
C26_MonotoneRelaxation ==
    [][ (pc = "solve" /\ ValidInput /\ NonNegativeData) =>
           \A c \in Cells : T'[c] >= T[c] ]_vars

\* C26 witness: a finished run of such a document with an interior source
\* whose second sweep still raised a cell.
C26_Witness ==
    /\ pc = "done" /\ ValidInput /\ NonNegativeData /\ RoomForInterior
    /\ sweeps >= 2 /\ error > 0
    /\ \E c \in Interior : Q[c] > 0 /\ T[c] > 0

\* The field of the run on the same document without its sources: the zero
\* field with the boundary temperatures of C21, relaxed n times with the
\* source-free average of the six neighbours.
RECURSIVE SourceFreeField(_)
SourceFreeField(n) ==
    IF n = 0
    THEN [c \in Cells |->
            IF ConditionsAt(c) = {} THEN 0
            ELSE doc.boundary_settings[LastAppliedAt(c)].temperature * Scale]
    ELSE LET P == SourceFreeField(n - 1)
         IN  [c \in Cells |-> IF c \in Interior THEN NeighbourSum(P, c) \div 6
                              ELSE P[c]]

\* Every source of the document has its index on a cell of the outer layer.
OnlyBoundarySources ==
    /\ Len(doc.source_setings) > 0
    /\ \A n \in 1..Len(doc.source_setings) :
          LET c == SourceIndex(doc.source_setings[n])
          IN  c \in Cells \ Interior

\* C27: a source whose index is a non-interior cell is accepted without a
\* warning and counted in the total heat input, and in every state of the
\* relaxation the field is that of the run without the source.
C27_BoundarySourcesInert ==
    (ValidInput /\ RoomForInterior /\ OnlyBoundarySources) =>
       /\ SourcesInjected =>
             /\ Len(warnings) = 0
             /\ \A n \in 1..Len(doc.source_setings) : Effective(n) =>
                   Q[SourceIndex(doc.source_setings[n])]
                      = doc.source_setings[n].volumetric_heat_source
       /\ SummaryWritten =>
             summary[1].total_heat_input = InjectedHeat(Len(doc.source_setings))
       /\ BoundariesApplied => T = SourceFreeField(sweeps)

\* C27 witness: a finished run with boundary conditions and at least two
\* sweeps whose only source sits on a boundary cell, is counted in the
\* summary and logged no warning.
C27_Witness ==
    /\ pc = "done" /\ ValidInput /\ RoomForInterior /\ OnlyBoundarySources
    /\ sweeps >= 2 /\ Len(warnings) = 0
    /\ summary[1].total_heat_input = 6
    /\ \E c \in Cells \ Interior : Q[c] = 6
    /\ \E c \in Interior : T[c] # 0

\* The samples of an exported axis are lo, lo + h, lo + 2 h, ...
NodesAt(coords, lo, h) ==
    \A i \in 1..Len(coords) :
       coords[i][1] = (lo + (i - 1) * h) * coords[i][2]

\* C28: on every axis of the exported grid of a valid run the coordinate of
\* index i is min + i * spacing, with the spacing the solver uses.
C28_AxesAgree ==
    (ValidInput /\ "Temperature.vtr" \in files) =>
       /\ Len(vtk.x_coords) = nx /\ NodesAt(vtk.x_coords, material.xmin, grid.dx)
       /\ Len(vtk.y_coords) = ny /\ NodesAt(vtk.y_coords, material.ymin, grid.dy)
       /\ Len(vtk.z_coords) = nz /\ NodesAt(vtk.z_coords, material.zmin, grid.dz)

----------------------------------------------------------------------------
\* Every material has a geometry and every source exactly one: no element
\* conversion of as_api_model can fail.
ElementsConvertible ==
    /\ \A m \in 1..Len(ui.material_settings) : ui.material_settings[m] >= 1
    /\ \A n \in 1..Len(ui.source_setings) : ui.source_setings[n] = 1

\* C29: a call of as_api_model (here: on a tree whose elements can all be
\* converted) either raises RuntimeError or returns a configuration with at
\* least one boundary condition and at least one material.
C29_ValidationGate ==
    (ElementsConvertible /\ ui.api_model.outcome # "none") =>
       \/ ui.api_model.outcome = "RuntimeError"
       \/ /\ ui.api_model.outcome = "returned"
          /\ ui.api_model.simulation.boundary_settings >= 1
          /\ ui.api_model.simulation.material_settings >= 1

\* The paths of the simulation node, of its six categories and of the
\* elements of a category.
TreePaths ==
    { <<0, 0>> }
    \cup { <<0, 0, cat>> : cat \in 0..5 }
    \cup { <<0, 0, cat, e>> : cat \in 0..5, e \in 0..(MaxElements - 1) }

IsItem(x) == x \notin { <<"None">>, <<"IndexError">> }

\* C30: for every path of length 2, 3 or 4 with a category index in 0..5
\* for which count_children returns n, get_tree_item returns an item for
\* each of the children 0..n-1; and the six children of the simulation node
\* are Setup, Materials, Sources, Boundaries, Grid, Solver in that order.
C30_TreeBinding ==
    /\ \A p \in TreePaths :
          "value" \in DOMAIN count_children(p) =>
             \A c \in 0..(count_children(p).value - 1) :
                IsItem(get_tree_item(Append(p, c)))
    /\ count_children(<<0, 0>>) = Returned(6)
    /\ [c \in 1..6 |-> get_tree_item(<<0, 0, c - 1>>)]
          = << <<"SetupSettings">>, <<"Materials">>, <<"Sources">>,
               <<"Boundaries">>, <<"GridSettings">>, <<"SolverSettings">> >>

\* C30 witness: a tree with two materials, two sources and two boundary
\* conditions, with geometries under a material and under a source.
C30_Witness ==
    /\ Len(ui.material_settings) = 2 /\ Len(ui.source_setings) = 2
    /\ Len(ui.boundary_settings) = 2
    /\ count_children(<<0, 0, 1, 1>>) = Returned(2)
    /\ count_children(<<0, 0, 2, 0>>) = Returned(1)
    /\ get_tree_item(<<0, 0, 1, 1, 1>>) = <<"Geometry", 1, 1, 1>>
    /\ get_tree_item(<<0, 0, 3, 1>>) = <<"BoundarySettings", 1>>

====
